---- MODULE Spec2Model ----
(***************************************************************************)
(* Model of ExecuteRemoteCommands of zrks/routine (src/main.go).           *)
(*                                                                         *)
(* The source holds two definitions of ExecuteRemoteCommands: the inlined  *)
(* one (lines 38-139) and the one built on setupSSHClient and              *)
(* executeCommand (lines 284-329).  The variable `version` says which of   *)
(* the two a run executes (1 = inlined, 2 = built on the helpers).         *)
(*                                                                         *)
(* Goroutines: the caller (launch loop, start of the closer, collecting    *)
(* loop), one task per entry of config.Hosts, and the closer (wg.Wait,     *)
(* close).  Shared objects: the WaitGroup counter wg and the buffered      *)
(* channel results.  The SSH library is the environment: the outcome of    *)
(* every library call is drawn by the action that makes the call and is    *)
(* recorded in env.                                                        *)
(*                                                                         *)
(* Strings: an error value is the tuple of the pieces fmt.Errorf chains    *)
(* with ": " (nil is <<>>); an output blob is the tuple of the entries     *)
(* that += appends ("" is <<>>).                                           *)
(***************************************************************************)
EXTENDS Integers, Sequences, FiniteSets, TLC

\* ---------------------------------------------------------------- bounds
\* Longest host list.
MaxHosts == 2

\* Longest command list.
MaxCmds == 3

\* Largest number of failing library calls of a run, all hosts together.
MaxFaults == 1

\* Largest number of task steps of a run, all tasks together.
MaxSteps == 16

\* ---------------------------------------------------------------- inputs
HostNames == <<"h1", "h2", "h3", "h4">>

CmdNames == <<"c1", "c2", "c3", "c4", "c5">>

\* The host list of n pairwise distinct names.
HostList(n) == [j \in 1..n |-> HostNames[j]]

\* A host list that names one host twice.
DupList == <<HostNames[1], HostNames[1]>>

CommandList(n) == [j \in 1..n |-> CmdNames[j]]

\* The steps a task takes at most on n commands: Connect, Send, Release and
\* Done, and Begin and Finish for every command.
TaskSteps(n) == 4 + 2 * n

\* Outcomes of the library calls.
BeginOutcomes == {"session", "pipe", "start", "started"}

FinishOutcomes == {"ok", "abnormal", "readerr"}

VARIABLES version, config, commands,
          mainpc, launched, wg, results, closed, closerpc, commandResults,
          task, env, panicked

vars == <<version, config, commands, mainpc, launched, wg, results, closed,
          closerpc, commandResults, task, env, panicked>>

NHosts == Len(config.Hosts)

Tasks == 1..NHosts

\* ---------------------------------------------------------------- values
nil == <<>>

\* fmt.Errorf("<prefix>: %v", err)
Errorf(prefix, err) == <<prefix>> \o err

\* The error value a failing library call returns.
LibErr(o) == <<o>>

\* CommandResult{Hostname: currentHost}
CommandResult(host) == [Hostname |-> host, Output |-> <<>>, Error |-> nil]

\* fmt.Sprintf("Command '%s' failed: %v\n", cmd, err)
FailedNote(cmd, err) == [cmd |-> cmd, kind |-> "failed", err |-> err]

\* fmt.Sprintf("Command '%s' output:\n%s\n", cmd, buf)
OutputEntry(cmd) == [cmd |-> cmd, kind |-> "output", err |-> nil]

\* Mutant: the goroutine reads the loop variable after the loop has ended.
CurrentHostCaptured(hosts, i) == hosts[Len(hosts)]

\* The argument of the go statement: func(currentHost string){...}(host)
CurrentHost(hosts, i) == hosts[i]

\* Mutant: the buffer has one slot, however many hosts there are.
ChanCapOne(hosts) == IF Len(hosts) = 0 THEN 0 ELSE 1

\* make(chan CommandResult, len(config.Hosts))
ChanCap(hosts) == Len(hosts)

\* The state of a task that has not been launched.
IdleTask ==
  [pc |-> "idle", hostResult |-> CommandResult(""), combinedOutput |-> <<>>,
   k |-> 0, client |-> "none", sessions |-> 0, auth |-> "none",
   dials |-> 0, created |-> 0, started |-> 0]

\* The state of a task at the start of its goroutine.
NewTask(host) ==
  [IdleTask EXCEPT !.pc = "connect", !.hostResult = CommandResult(host)]

NoEnv == [conn |-> "", cmds |-> <<>>]

\* Number of failing outcomes the environment has delivered so far.
RECURSIVE CountBad(_)
CountBad(s) ==
  IF s = <<>> THEN 0
  ELSE (IF Head(s) \in {"ok", "none", ""} THEN 0 ELSE 1) + CountBad(Tail(s))

RECURSIVE FaultsFrom(_)
FaultsFrom(i) ==
  IF i > NHosts THEN 0
  ELSE CountBad(<<env[i].conn>> \o env[i].cmds) + FaultsFrom(i + 1)

Faults == FaultsFrom(1)

\* An outcome the environment may deliver: a failure only within the budget.
Allowed(o) == o \in {"ok", "started", "none"} \/ Faults < MaxFaults

\* ------------------------------------------------- connection (pure part)
\* The library calls a connection attempt makes under cfg, as the outcomes
\* the environment can give them: "none" when no call is made at all.
ConnOutcomes(cfg) ==
  IF cfg.KeyPath # "" THEN {"readkey", "parsekey", "dial", "ok"}
  ELSE IF cfg.Password # "" THEN {"dial", "ok"}
  ELSE {"none"}

\* Mutant: the password is tried before the key.
setupSSHClientPasswordFirst(host, cfg, o) ==
  IF cfg.Password # "" THEN
    IF o = "dial" THEN
      [client |-> "none", err |-> LibErr(o), auth |-> "password", dials |-> 1]
    ELSE [client |-> "open", err |-> nil, auth |-> "password", dials |-> 1]
  ELSE IF cfg.KeyPath # "" THEN
    IF o = "readkey" THEN
      [client |-> "none", err |-> Errorf("read key", LibErr(o)), auth |-> "none",
       dials |-> 0]
    ELSE IF o = "parsekey" THEN
      [client |-> "none", err |-> Errorf("parse key", LibErr(o)), auth |-> "none",
       dials |-> 0]
    ELSE IF o = "dial" THEN
      [client |-> "none", err |-> LibErr(o), auth |-> "key", dials |-> 1]
    ELSE [client |-> "open", err |-> nil, auth |-> "key", dials |-> 1]
  ELSE [client |-> "none", err |-> <<"no auth method">>, auth |-> "none",
        dials |-> 0]

\* setupSSHClient(host, config): (client, err), and the credential selected.
setupSSHClient(host, cfg, o) ==
  IF cfg.KeyPath # "" THEN
    IF o = "readkey" THEN
      [client |-> "none", err |-> Errorf("read key", LibErr(o)), auth |-> "none",
       dials |-> 0]
    ELSE IF o = "parsekey" THEN
      [client |-> "none", err |-> Errorf("parse key", LibErr(o)), auth |-> "none",
       dials |-> 0]
    ELSE IF o = "dial" THEN
      [client |-> "none", err |-> LibErr(o), auth |-> "key", dials |-> 1]
    ELSE [client |-> "open", err |-> nil, auth |-> "key", dials |-> 1]
  ELSE IF cfg.Password # "" THEN
    IF o = "dial" THEN
      [client |-> "none", err |-> LibErr(o), auth |-> "password", dials |-> 1]
    ELSE [client |-> "open", err |-> nil, auth |-> "password", dials |-> 1]
  ELSE [client |-> "none", err |-> <<"no auth method">>, auth |-> "none",
        dials |-> 0]

\* Mutant: a command that failed is run again instead of the next one.
NextCommandRetry(t, cmds, out) ==
  IF out # <<>> /\ out[Len(out)].kind = "failed"
  THEN [t EXCEPT !.pc = "loop", !.combinedOutput = out]
  ELSE IF t.k < Len(cmds)
  THEN [t EXCEPT !.pc = "loop", !.k = @ + 1, !.combinedOutput = out]
  ELSE [t EXCEPT !.pc = "send", !.k = @ + 1, !.combinedOutput = out,
                 !.hostResult.Output = out]

\* Entry of `for _, cmd := range commands`, and the statement after the loop
\* when there is nothing (left) to run: hostResult.Output = combinedOutput.
NextCommand(t, cmds, out) ==
  IF t.k < Len(cmds)
  THEN [t EXCEPT !.pc = "loop", !.k = @ + 1, !.combinedOutput = out]
  ELSE [t EXCEPT !.pc = "send", !.k = @ + 1, !.combinedOutput = out,
                 !.hostResult.Output = out]

\* Mutant: the terminal error is written into the output blob as well.
FailWithOutput(t, err) ==
  [t EXCEPT !.pc = "send", !.hostResult.Error = err,
            !.hostResult.Output = <<FailedNote("", err)>>]

\* return with a terminal error: hostResult.Error = err; results <- hostResult
Fail(t, err) == [t EXCEPT !.pc = "send", !.hostResult.Error = err]

\* Inlined definition, credential selection and dial.
ConnectInlined(t, cfg, cmds, o) ==
  LET host == t.hostResult.Hostname IN
  IF cfg.KeyPath # "" /\ o = "readkey" THEN Fail(t, Errorf("read key", LibErr(o)))
  ELSE IF cfg.KeyPath # "" /\ o = "parsekey" THEN Fail(t, Errorf("parse key", LibErr(o)))
  ELSE IF cfg.KeyPath = "" /\ cfg.Password = "" THEN Fail(t, <<"no auth method">>)
  ELSE LET a == IF cfg.KeyPath # "" THEN "key" ELSE "password" IN
       IF o = "dial"
       THEN Fail([t EXCEPT !.auth = a, !.dials = @ + 1],
                 Errorf("dial " \o host, LibErr(o)))
       ELSE NextCommand([t EXCEPT !.auth = a, !.dials = @ + 1, !.client = "open"],
                        cmds, <<>>)

\* Definition built on the helpers: client, err := setupSSHClient(...).
ConnectHelper(t, cfg, cmds, o) ==
  LET host == t.hostResult.Hostname
      r == setupSSHClient(host, cfg, o) IN
  IF r.err # nil
  THEN Fail([t EXCEPT !.auth = r.auth, !.dials = @ + r.dials],
            Errorf("dial " \o host, r.err))
  ELSE NextCommand([t EXCEPT !.auth = r.auth, !.dials = @ + r.dials,
                             !.client = r.client], cmds, <<>>)

\* ---------------------------------------------------- commands (pure part)
\* Inlined loop body up to and including session.Start(cmd).
BeginInlined(t, cmds, o) ==
  LET cmd == cmds[t.k] IN
  IF o = "session" THEN Fail(t, Errorf("session", LibErr(o)))
  ELSE IF o = "pipe"
    THEN Fail([t EXCEPT !.created = @ + 1], Errorf("stdout pipe", LibErr(o)))
  ELSE IF o = "start"
    THEN NextCommand([t EXCEPT !.created = @ + 1], cmds,
                     Append(t.combinedOutput, FailedNote(cmd, LibErr(o))))
  ELSE [t EXCEPT !.pc = "running", !.sessions = @ + 1, !.created = @ + 1,
                 !.started = @ + 1]

\* Mutant: the loop body goes on without session.Close().
FinishInlinedLeak(t, cmds, o) ==
  NextCommand(t, cmds, Append(t.combinedOutput, OutputEntry(cmds[t.k])))

\* Inlined loop body from io.ReadAll to the append of the output entry: the
\* results of ReadAll and Wait are dropped.
FinishInlined(t, cmds, o) ==
  NextCommand([t EXCEPT !.sessions = @ - 1], cmds,
              Append(t.combinedOutput, OutputEntry(cmds[t.k])))

\* executeCommand up to and including session.Start(cmd): the error it
\* returns (nil when the command runs) and the sessions left open.
executeCommandStart(o) ==
  IF o = "session"
    THEN [err |-> Errorf("session", LibErr(o)), open |-> 0, created |-> 0,
          started |-> 0]
  ELSE IF o = "pipe"
    THEN [err |-> Errorf("stdout pipe", LibErr(o)), open |-> 0, created |-> 1,
          started |-> 0]
  ELSE IF o = "start"
    THEN [err |-> Errorf("start command", LibErr(o)), open |-> 0, created |-> 1,
          started |-> 0]
  ELSE [err |-> nil, open |-> 1, created |-> 1, started |-> 1]

\* executeCommand from io.ReadAll to return string(buf), nil.
executeCommandWait(o) == [err |-> nil, open |-> 0, created |-> 0, started |-> 0]

\* Loop body of the definition built on executeCommand: what follows the call.
AfterCommand(t, cmds, r) ==
  LET cmd == cmds[t.k] IN
  LET u == [t EXCEPT !.sessions = r.open, !.created = @ + r.created,
                     !.started = @ + r.started] IN
  IF r.err # nil
  THEN NextCommand(u, cmds, Append(t.combinedOutput, FailedNote(cmd, r.err)))
  ELSE NextCommand(u, cmds, Append(t.combinedOutput, OutputEntry(cmd)))

BeginHelper(t, cmds, o) ==
  LET r == executeCommandStart(o) IN
  IF r.err = nil
  THEN [t EXCEPT !.pc = "running", !.sessions = r.open,
                 !.created = @ + r.created, !.started = @ + r.started]
  ELSE AfterCommand(t, cmds, r)

FinishHelper(t, cmds, o) == AfterCommand(t, cmds, executeCommandWait(o))

\* The definition of ExecuteRemoteCommands that runs: v = 1 inlined, v = 2
\* built on setupSSHClient and executeCommand.
ConnectStep(v, t, cfg, cmds, o) ==
  IF v = 1 THEN ConnectInlined(t, cfg, cmds, o) ELSE ConnectHelper(t, cfg, cmds, o)

BeginStep(v, t, cmds, o) ==
  IF v = 1 THEN BeginInlined(t, cmds, o) ELSE BeginHelper(t, cmds, o)

FinishStep(v, t, cmds, o) ==
  IF v = 1 THEN FinishInlined(t, cmds, o) ELSE FinishHelper(t, cmds, o)

\* ------------------------------------------------------------ the program
HostLists ==
  {HostList(n) : n \in 0..MaxHosts} \cup {l \in {DupList} : Len(l) <= MaxHosts}

Configs ==
  [Hosts : HostLists, KeyPath : {"", "id_rsa"}, Password : {"", "secret"}]

\* The configuration main builds from its flags: --key gives KeyPath, and no
\* flag gives Password.
MainConfig(hosts, keyPath) ==
  [Hosts |-> hosts, KeyPath |-> keyPath, Password |-> ""]

Init ==
  /\ version \in {1, 2}
  /\ config \in Configs
  /\ commands \in {CommandList(n) : n \in 0..MaxCmds}
  /\ Len(config.Hosts) * TaskSteps(Len(commands)) <= MaxSteps
  /\ mainpc = "launch"
  /\ launched = 0
  /\ wg = 0
  /\ results = <<>>
  /\ closed = FALSE
  /\ closerpc = "none"
  /\ commandResults = <<>>
  /\ task = [i \in 1..Len(config.Hosts) |-> IdleTask]
  /\ env = [i \in 1..Len(config.Hosts) |-> NoEnv]
  /\ panicked = FALSE

\* Mutant: the loop starts the next task only when the previous one is over.
LaunchSerial ==
  /\ mainpc = "launch"
  /\ launched < NHosts
  /\ IF launched = 0 THEN TRUE ELSE task[launched].pc = "finished"
  /\ launched' = launched + 1
  /\ wg' = wg + 1
  /\ task' = [task EXCEPT ![launched + 1] =
                  NewTask(CurrentHost(config.Hosts, launched + 1))]
  /\ UNCHANGED <<version, config, commands, mainpc, results, closed, closerpc,
                 commandResults, env, panicked>>

\* for _, host := range config.Hosts { wg.Add(1); go func(currentHost){...}(host) }
Launch ==
  /\ mainpc = "launch"
  /\ launched < NHosts
  /\ launched' = launched + 1
  /\ wg' = wg + 1
  /\ task' = [task EXCEPT ![launched + 1] =
                  NewTask(CurrentHost(config.Hosts, launched + 1))]
  /\ UNCHANGED <<version, config, commands, mainpc, results, closed, closerpc,
                 commandResults, env, panicked>>

\* Mutant: the closer is started only when there are hosts.
SpawnCloserIfHosts ==
  /\ mainpc = "launch"
  /\ launched = NHosts
  /\ mainpc' = "collect"
  /\ closerpc' = IF NHosts = 0 THEN "none" ELSE "wait"
  /\ UNCHANGED <<version, config, commands, launched, wg, results, closed,
                 commandResults, task, env, panicked>>

\* go func() { wg.Wait(); close(results) }()
SpawnCloser ==
  /\ mainpc = "launch"
  /\ launched = NHosts
  /\ mainpc' = "collect"
  /\ closerpc' = "wait"
  /\ UNCHANGED <<version, config, commands, launched, wg, results, closed,
                 commandResults, task, env, panicked>>

\* Mutant: the closer stops waiting while one task is still counted.
WaitReturnsEarly(n) == n <= 1

\* wg.Wait() returns
WaitReturns(n) == n = 0

CloserWait ==
  /\ closerpc = "wait"
  /\ WaitReturns(wg)
  /\ closerpc' = "close"
  /\ UNCHANGED <<version, config, commands, mainpc, launched, wg, results,
                 closed, commandResults, task, env, panicked>>

\* close(results)
CloserClose ==
  /\ closerpc = "close"
  /\ closerpc' = "done"
  /\ closed' = TRUE
  /\ UNCHANGED <<version, config, commands, mainpc, launched, wg, results,
                 commandResults, task, env, panicked>>

\* for result := range results { commandResults = append(commandResults, result) }
Collect ==
  /\ mainpc = "collect"
  /\ results # <<>>
  /\ commandResults' = Append(commandResults, Head(results))
  /\ results' = Tail(results)
  /\ UNCHANGED <<version, config, commands, mainpc, launched, wg, closed,
                 closerpc, task, env, panicked>>

\* The range loop ends on the closed, drained channel: return commandResults.
Return ==
  /\ mainpc = "collect"
  /\ results = <<>>
  /\ closed
  /\ mainpc' = "returned"
  /\ UNCHANGED <<version, config, commands, launched, wg, results, closed,
                 closerpc, commandResults, task, env, panicked>>

TaskFrame ==
  UNCHANGED <<version, config, commands, mainpc, launched, wg, results, closed,
              closerpc, commandResults, panicked>>

Connect(i) ==
  /\ task[i].pc = "connect"
  /\ \E o \in ConnOutcomes(config) :
       /\ Allowed(o)
       /\ task' = [task EXCEPT ![i] =
                       ConnectStep(version, task[i], config, commands, o)]
       /\ env' = [env EXCEPT ![i].conn = o]
  /\ TaskFrame

Begin(i) ==
  /\ task[i].pc = "loop"
  /\ \E o \in BeginOutcomes :
       /\ Allowed(o)
       /\ task' = [task EXCEPT ![i] = BeginStep(version, task[i], commands, o)]
       /\ env' = IF o = "started" THEN env
                 ELSE [env EXCEPT ![i].cmds = Append(@, o)]
  /\ TaskFrame

Finish(i) ==
  /\ task[i].pc = "running"
  /\ \E o \in FinishOutcomes :
       /\ Allowed(o)
       /\ task' = [task EXCEPT ![i] = FinishStep(version, task[i], commands, o)]
       /\ env' = [env EXCEPT ![i].cmds = Append(@, o)]
  /\ TaskFrame

\* Mutant: the tasks share one hostResult, the one of the first task.
SendValueShared(i) == task[1].hostResult

\* The value a task sends.
SendValue(i) == task[i].hostResult

\* results <- hostResult: blocks while the buffer is full, panics when the
\* channel is closed.
Send(i) ==
  /\ task[i].pc = "send"
  /\ closed \/ Len(results) < ChanCap(config.Hosts)
  /\ IF closed
     THEN panicked' = TRUE /\ UNCHANGED results
     ELSE results' = Append(results, SendValue(i)) /\ UNCHANGED panicked
  /\ task' = [task EXCEPT ![i].pc = "deferred"]
  /\ UNCHANGED <<version, config, commands, mainpc, launched, wg, closed,
                 closerpc, commandResults, env>>

\* Mutant: the deferred close stores its error in the result already sent.
ReleaseRecordsError(i) ==
  /\ task[i].pc = "deferred"
  /\ task[i].client = "open"
  /\ task' = [task EXCEPT ![i].client = "closed",
                          ![i].hostResult.Error = <<"close">>]
  /\ UNCHANGED <<env>>
  /\ TaskFrame

\* defer client.Close(): registered last, so it runs first.
Release(i) ==
  /\ task[i].pc = "deferred"
  /\ task[i].client = "open"
  /\ task' = [task EXCEPT ![i].client = "closed"]
  /\ UNCHANGED <<env>>
  /\ TaskFrame

\* Mutant: wg.Done() runs while the connection is still open.
DoneBeforeClose(i) ==
  /\ task[i].pc = "deferred"
  /\ task' = [task EXCEPT ![i].pc = "finished"]
  /\ wg' = wg - 1
  /\ UNCHANGED <<version, config, commands, mainpc, launched, results, closed,
                 closerpc, commandResults, env, panicked>>

\* Mutant: the task ends without wg.Done().
DoneMissing(i) ==
  /\ task[i].pc = "deferred"
  /\ task[i].client # "open"
  /\ task' = [task EXCEPT ![i].pc = "finished"]
  /\ UNCHANGED <<version, config, commands, mainpc, launched, wg, results,
                 closed, closerpc, commandResults, env, panicked>>

\* defer wg.Done(): registered first, so it runs last.
Done(i) ==
  /\ task[i].pc = "deferred"
  /\ task[i].client # "open"
  /\ task' = [task EXCEPT ![i].pc = "finished"]
  /\ wg' = wg - 1
  /\ UNCHANGED <<version, config, commands, mainpc, launched, results, closed,
                 closerpc, commandResults, env, panicked>>

\* One step of the task of host list entry i.
TaskStep(i) ==
  /\ i \in Tasks
  /\ Connect(i) \/ Begin(i) \/ Finish(i) \/ Send(i) \/ Release(i) \/ Done(i)

Next ==
  \/ Launch
  \/ SpawnCloser
  \/ CloserWait
  \/ CloserClose
  \/ Collect
  \/ Return
  \/ \E i \in Tasks : Connect(i)
  \/ \E i \in Tasks : Begin(i)
  \/ \E i \in Tasks : Finish(i)
  \/ \E i \in Tasks : Send(i)
  \/ \E i \in Tasks : Release(i)
  \/ \E i \in Tasks : Done(i)

Spec == Init /\ [][Next]_vars

\* The Go scheduler runs every goroutine that can take a step; nothing else
\* is assumed.  The library calls of Connect, Begin and Finish return.
Fairness ==
  /\ WF_vars(Launch \/ SpawnCloser \/ Collect \/ Return)
  /\ WF_vars(CloserWait \/ CloserClose)
  /\ \A i \in 1..MaxHosts : WF_vars(TaskStep(i))

LiveSpec == Spec /\ Fairness

\* Every step of a task but the return of io.ReadAll and session.Wait, which
\* wait for the remote command to end.
TaskStepButFinish(i) ==
  /\ i \in Tasks
  /\ Connect(i) \/ Begin(i) \/ Send(i) \/ Release(i) \/ Done(i)

\* As Fairness, but a started command need not ever finish.
HangFairness ==
  /\ WF_vars(Launch \/ SpawnCloser \/ Collect \/ Return)
  /\ WF_vars(CloserWait \/ CloserClose)
  /\ \A i \in 1..MaxHosts : WF_vars(TaskStepButFinish(i))

HangSpec == Spec /\ HangFairness

\* ================================================================ claims
\* Tasks whose goroutine has reached (or passed) results <- hostResult.
AtSend(i) == task[i].pc \in {"send", "deferred", "finished"}

\* Tasks that have sent their result.
Past(i) == task[i].pc \in {"deferred", "finished"}

\* Everything sent so far, collected or still buffered.
Delivered == commandResults \o results

CountIn(seq, x) == Cardinality({j \in DOMAIN seq : seq[j] = x})

Hostnames(seq) == [j \in DOMAIN seq |-> seq[j].Hostname]

Labels(blob) == [j \in DOMAIN blob |-> blob[j].cmd]

Connected(i) == task[i].client # "none"

ConnFailed(i) == env[i].conn \in {"readkey", "parsekey", "dial", "none"}

\* C1: the call returns exactly one result per entry of the host list, and
\* the hostnames of the results are the host list as a multiset.
InvC1 ==
  mainpc = "returned" =>
    /\ Len(commandResults) = Len(config.Hosts)
    /\ \A j \in DOMAIN HostNames :
         CountIn(Hostnames(commandResults), HostNames[j])
           = CountIn(config.Hosts, HostNames[j])

WitC1 ==
  /\ mainpc = "returned"
  /\ Len(config.Hosts) = 2
  /\ config.Hosts[1] = config.Hosts[2]
  /\ \E j \in DOMAIN commandResults : commandResults[j].Error # nil
  /\ \E j \in DOMAIN commandResults : commandResults[j].Error = nil

\* C2: the channel is closed only after every task has sent its result and
\* signalled the WaitGroup, every task that reached its send has delivered
\* exactly one result, and the call returns only with all of them collected.
InvC2 ==
  /\ closerpc \in {"close", "done"} =>
       /\ launched = NHosts
       /\ \A i \in Tasks : task[i].pc = "finished"
  /\ Len(Delivered) = Cardinality({i \in Tasks : Past(i)})
  /\ mainpc = "returned" =>
       /\ \A i \in Tasks : Past(i)
       /\ Len(commandResults) = NHosts
  /\ ~panicked

WitC2 ==
  /\ closed
  /\ NHosts = 2
  /\ mainpc = "collect"
  /\ Len(results) = 1
  /\ Len(commandResults) = 1

\* C3: on a connected host every command of the list is attempted exactly
\* once and the blob holds one entry per command, a failure note for each
\* command that failed to start (session, stdout pipe or Start).
CexC3 ==
  \A i \in Tasks :
    (Connected(i) /\ AtSend(i)) =>
      /\ Len(env[i].cmds) = Len(commands)
      /\ Len(task[i].hostResult.Output) = Len(commands)
      /\ \A j \in DOMAIN commands :
           env[i].cmds[j] \in {"session", "pipe", "start"} =>
             /\ task[i].hostResult.Output[j].kind = "failed"
             /\ task[i].hostResult.Output[j].cmd = commands[j]

\* C4: a result carries a terminal Error exactly when the connection of its
\* host could not be established.
CexC4 ==
  \A i \in Tasks :
    AtSend(i) => ((task[i].hostResult.Error # nil) <=> ~Connected(i))

\* C5: a host whose connection attempt failed ends with Error set and an
\* empty Output, without a client, a session or a started command, and that
\* is the result it delivers.
InvC5 ==
  \A i \in Tasks :
    ConnFailed(i) =>
      /\ AtSend(i)
      /\ task[i].hostResult.Error # nil
      /\ task[i].hostResult.Output = <<>>
      /\ task[i].client = "none"
      /\ task[i].created = 0
      /\ task[i].started = 0
      /\ task[i].sessions = 0
      /\ env[i].cmds = <<>>
      /\ Past(i) => CountIn(Delivered, task[i].hostResult) > 0

WitC5 ==
  /\ mainpc = "returned"
  /\ Len(commands) > 0
  /\ \E i \in Tasks : env[i].conn = "dial"
  /\ \E i \in Tasks : env[i].conn = "ok"

\* C6: a command that started and then exited abnormally, or whose output
\* could not be read, has a failure note naming it in the blob.
CexC6 ==
  \A i \in Tasks :
    \A j \in DOMAIN env[i].cmds :
      env[i].cmds[j] \in {"abnormal", "readerr"} =>
        /\ j \in DOMAIN task[i].combinedOutput
        /\ task[i].combinedOutput[j].kind = "failed"
        /\ task[i].combinedOutput[j].cmd = commands[j]

\* C7: the blob of a connected host holds the entries of the commands in the
\* order of the command list, one per command.
CexC7 ==
  \A i \in Tasks :
    (Connected(i) /\ AtSend(i)) => Labels(task[i].hostResult.Output) = commands

\* The task of one host run alone on the outcomes e the environment gave it.
RECURSIVE SoloCommands(_, _, _, _)
SoloCommands(v, t, cmds, os) ==
  IF os = <<>> \/ t.pc # "loop" THEN t
  ELSE LET o == Head(os)
           u == IF o \in FinishOutcomes
                THEN FinishStep(v, BeginStep(v, t, cmds, "started"), cmds, o)
                ELSE BeginStep(v, t, cmds, o)
       IN SoloCommands(v, u, cmds, Tail(os))

SoloTask(v, host, cfg, cmds, e) ==
  IF e.conn = "" THEN NewTask(host)
  ELSE SoloCommands(v, ConnectStep(v, NewTask(host), cfg, cmds, e.conn), cmds, e.cmds)

SoloResult(i) ==
  SoloTask(version, config.Hosts[i], config, commands, env[i]).hostResult

\* C8: the result of a host is the result its task produces when it runs
\* alone on the same own outcomes, whatever the other hosts did, and the
\* results delivered are exactly the results of the tasks that have sent.
InvC8 ==
  /\ \A i \in Tasks : AtSend(i) => task[i].hostResult = SoloResult(i)
  /\ \A i \in Tasks :
       Past(i) =>
         CountIn(Delivered, task[i].hostResult)
           = Cardinality({j \in Tasks : Past(j)
                                        /\ task[j].hostResult = task[i].hostResult})
  /\ Len(Delivered) = Cardinality({i \in Tasks : Past(i)})

WitC8 ==
  /\ mainpc = "returned"
  /\ NHosts = 2
  /\ Len(commands) = 2
  /\ env[1].conn = "ok" /\ env[1].cmds = <<"ok", "pipe">>
  /\ env[2].conn = "ok" /\ env[2].cmds = <<"ok", "ok">>
  /\ task[2].hostResult.Error = nil
  /\ Len(task[2].hostResult.Output) = 2

\* C9: under fair scheduling, with every library call returning, the call
\* returns, and it never panics.
LiveC9 == <>[](mainpc = "returned" /\ ~panicked)

WitC9 ==
  /\ mainpc = "returned"
  /\ ~panicked
  /\ NHosts = 2
  /\ Len(commandResults) = 2
  /\ \E i \in Tasks : task[i].hostResult.Error # nil

\* C10: with an empty host list no task is launched, the WaitGroup stays at
\* zero, the closer's wg.Wait returns at once, no step of the call blocks,
\* and the result set returned is empty.
InvC10 ==
  NHosts = 0 =>
    /\ launched = 0
    /\ wg = 0
    /\ results = <<>>
    /\ commandResults = <<>>
    /\ closerpc = "wait" => ENABLED CloserWait
    /\ mainpc # "returned" => ENABLED Next

WitC10 ==
  /\ NHosts = 0
  /\ mainpc = "returned"
  /\ closed
  /\ commandResults = <<>>

\* Tasks that have made their connection attempt.
Attempted(i) == task[i].pc \notin {"idle", "connect"}

\* C11: with a key path and a password both configured no task selects the
\* password: a task whose key cannot be read or parsed ends with a terminal
\* error without a credential and without dialing, every other task dials
\* with the key.
InvC11 ==
  (config.KeyPath # "" /\ config.Password # "") =>
    \A i \in Tasks :
      /\ task[i].auth # "password"
      /\ (Attempted(i) /\ env[i].conn \in {"readkey", "parsekey"}) =>
           /\ task[i].auth = "none"
           /\ task[i].dials = 0
           /\ task[i].client = "none"
           /\ task[i].hostResult.Error # nil
      /\ (Attempted(i) /\ env[i].conn \in {"dial", "ok"}) =>
           /\ task[i].auth = "key"
           /\ task[i].dials = 1

WitC11 ==
  /\ config.KeyPath # ""
  /\ config.Password # ""
  /\ NHosts = 2
  /\ mainpc = "returned"
  /\ env[1].conn = "parsekey"
  /\ env[2].conn = "ok"
  /\ task[2].auth = "key"

\* C12: started with --user and without --key, every task selects the
\* password credential and dials its host.
CexC12 ==
  config = MainConfig(config.Hosts, "") =>
    \A i \in Tasks :
      Attempted(i) =>
        /\ task[i].auth = "password"
        /\ task[i].dials = 1
        /\ task[i].hostResult.Error # <<"no auth method">>

\* The task of entry i waits for a command that has started.
Running(i) == i \in Tasks /\ task[i].pc = "running"

\* Every task but the one of entry i has finished and its result is collected.
OthersDone(i) ==
  /\ \A j \in Tasks \ {i} : task[j].pc = "finished"
  /\ Len(commandResults) = NHosts - 1
  /\ results = <<>>

\* C13: when the command of one host never finishes while no other host
\* hangs, every other task finishes and its result is collected while the
\* call stays unreturned; the call returns only with every task finished, so
\* it never returns.
LiveC13 ==
  /\ [](mainpc = "returned" => \A i \in Tasks : task[i].pc = "finished")
  /\ \A i \in 1..MaxHosts :
       (<>[]Running(i) /\ \A j \in (1..MaxHosts) \ {i} : []<>(~Running(j)))
         => <>[](OthersDone(i) /\ mainpc # "returned")

WitC13 ==
  /\ NHosts = 2
  /\ Len(commands) = 2
  /\ Running(1)
  /\ task[1].k = 2
  /\ OthersDone(1)
  /\ task[2].hostResult.Error = nil
  /\ Len(task[2].hostResult.Output) = 2
  /\ closerpc = "wait"
  /\ mainpc = "collect"

\* C14: a task has at most one session open, and only while it waits for
\* the command it started; when it is about to create the session of command
\* k, or has left the loop on any path, every session it created (one per
\* earlier command at most) is closed.
InvC14 ==
  \A i \in Tasks :
    /\ task[i].sessions \in {0, 1}
    /\ task[i].sessions = 1 <=> task[i].pc = "running"
    /\ task[i].sessions = 1 => task[i].client = "open"
    /\ task[i].created <= task[i].k
    /\ task[i].pc = "loop" => task[i].created < task[i].k

WitC14 ==
  \E i \in Tasks :
    /\ task[i].pc = "running"
    /\ task[i].k = 3
    /\ env[i].cmds = <<"ok", "start">>
    /\ task[i].created = 3
    /\ task[i].sessions = 1

\* Number of commands the task of entry i has tried to run so far.
Attempts(i) ==
  Len(env[i].cmds) + (IF task[i].pc = "running" THEN 1 ELSE 0)

\* C15: a task dials at most once, and not at all without a credential; the
\* commands it has tried are exactly the ones before its loop position, once
\* each, so none is started twice, also after a failure.
InvC15 ==
  \A i \in Tasks :
    /\ task[i].dials <= 1
    /\ task[i].client # "none" => task[i].dials = 1
    /\ task[i].started <= Attempts(i)
    /\ Attempts(i) <= Len(commands)
    /\ task[i].pc = "loop" => Attempts(i) = task[i].k - 1
    /\ task[i].pc = "running" => Attempts(i) = task[i].k
    /\ Attempted(i) /\ task[i].client = "none" => Attempts(i) = 0

WitC15 ==
  /\ mainpc = "returned"
  /\ NHosts = 2
  /\ Len(commands) = 2
  /\ env[1].conn = "ok" /\ env[1].cmds = <<"start", "ok">>
  /\ task[1].dials = 1 /\ Attempts(1) = 2 /\ task[1].started = 1
  /\ env[2].conn = "ok" /\ Attempts(2) = 2 /\ task[2].started = 2

\* C16: no step changes the hostResult of a task that has sent it, and no
\* step changes a result already delivered: the delivered results only grow
\* at the end.
PropC16 ==
  [][/\ \A i \in Tasks : Past(i) => task'[i].hostResult = task[i].hostResult
     /\ Len(Delivered') >= Len(Delivered)
     /\ SubSeq(Delivered', 1, Len(Delivered)) = Delivered]_vars

WitC16 ==
  \E i, j \in Tasks :
    /\ task[i].pc = "finished"
    /\ task[i].client = "closed"
    /\ commandResults = <<task[i].hostResult>>
    /\ task[i].hostResult.Error = nil
    /\ Len(task[i].hostResult.Output) = 2
    /\ task[j].pc = "running"

\* C17: a task that has called wg.Done() holds no open connection and no open
\* session; once the barrier is crossed, and so when the call has returned,
\* every task has finished with its connection released.
InvC17 ==
  /\ \A i \in Tasks :
       task[i].pc = "finished" =>
         /\ task[i].client # "open"
         /\ task[i].sessions = 0
         /\ Connected(i) => task[i].client = "closed"
  /\ closerpc \in {"close", "done"} \/ mainpc = "returned" =>
       /\ launched = NHosts
       /\ \A i \in Tasks : task[i].pc = "finished" /\ task[i].client # "open"

WitC17 ==
  /\ mainpc = "returned"
  /\ NHosts = 2
  /\ version = 1
  /\ task[1].client = "closed" /\ task[1].hostResult.Error # nil
  /\ task[2].client = "closed" /\ task[2].hostResult.Error = nil
  /\ Len(task[2].hostResult.Output) = 2

\* C18: the buffer never holds more than len(Hosts) results; a task at its
\* send always finds the channel open with a free slot, so it neither blocks
\* nor panics; the channel is closed only when every task has sent and
\* finished, each having sent once.
InvC18 ==
  /\ Len(results) <= ChanCap(config.Hosts)
  /\ ~panicked
  /\ \A i \in Tasks :
       task[i].pc = "send" =>
         /\ ~closed
         /\ Len(results) < ChanCap(config.Hosts)
         /\ ENABLED Send(i)
  /\ closed => launched = NHosts /\ \A i \in Tasks : task[i].pc = "finished"
  /\ Len(Delivered) + Cardinality({i \in Tasks : ~Past(i)}) = NHosts

WitC18 ==
  /\ NHosts = 2
  /\ Len(results) = 2
  /\ closerpc = "none"
  /\ commandResults = <<>>
  /\ \A i \in Tasks : task[i].pc = "finished"

\* What C19 compares of a result: whether the terminal error is set, and the
\* sequence of entries, each with its command and its kind.
OutcomeKind(r) ==
  [failed |-> r.Error # nil,
   entries |-> [j \in DOMAIN r.Output |-> <<r.Output[j].cmd, r.Output[j].kind>>]]

\* C19: on the outcomes a task got, the inlined definition and the one built
\* on the helpers, each run to its send, give a result with the same kind of
\* outcome and the same sequence of entries.
CexC19 ==
  \A i \in Tasks :
    AtSend(i) =>
      LET a == SoloTask(1, config.Hosts[i], config, commands, env[i])
          b == SoloTask(2, config.Hosts[i], config, commands, env[i])
      IN (a.pc = "send" /\ b.pc = "send") =>
           OutcomeKind(a.hostResult) = OutcomeKind(b.hostResult)

====
